---- MODULE Spec2Model ----
(***************************************************************************)
(* Model of the texcompile client: the remote path (send_request and the   *)
(* three entry points compile_pdf, compile_pdf_return_bytes and            *)
(* compile_html_return_text) and the local runner compile_pdf_locally.     *)
(* One call is followed from its entry to its return or raise.             *)
(***************************************************************************)
EXTENDS Integers, Sequences, FiniteSets, TLC

(* ------------------------------ bounds --------------------------------- *)
\* largest number of entries in the "output" list of a response
MaxOutputs == 2
\* largest number of 104 answers the server gives to one call
MaxBusy == 2
\* largest number of tokens in the driver's captured stdout
MaxStdout == 5

(* ------------- characters (ASCII codes) and bytes ----------------------- *)
\* binascii's table_a2b_base64: the 6-bit value of a character, -1 if none
Sextet(c) ==
    IF c \in 65..90 THEN c - 65
    ELSE IF c \in 97..122 THEN c - 71
    ELSE IF c \in 48..57 THEN c + 4
    ELSE IF c = 43 THEN 62
    ELSE IF c = 47 THEN 63
    ELSE -1

\* binascii.a2b_base64 in its lenient mode, one character per recursion:
\* quad_pos, leftchar and pads are the decoder's registers.
RECURSIVE a2b_base64(_, _, _, _, _, _)
a2b_base64(s, k, quad_pos, leftchar, pads, out) ==
    IF k > Len(s)
    THEN IF quad_pos # 0 THEN [ok |-> FALSE, bytes |-> <<>>]
                         ELSE [ok |-> TRUE, bytes |-> out]
    ELSE LET c == s[k]
             v == Sextet(c)
         IN  IF c = 61
             THEN IF quad_pos >= 2 /\ quad_pos + pads + 1 >= 4
                  THEN [ok |-> TRUE, bytes |-> out]
                  ELSE a2b_base64(s, k + 1, quad_pos, leftchar,
                                  IF quad_pos >= 2 THEN pads + 1 ELSE pads, out)
             ELSE IF v = -1
             THEN a2b_base64(s, k + 1, quad_pos, leftchar, pads, out)
             ELSE IF quad_pos = 0
             THEN a2b_base64(s, k + 1, 1, v, 0, out)
             ELSE IF quad_pos = 1
             THEN a2b_base64(s, k + 1, 2, v % 16, 0,
                             Append(out, (leftchar * 4 + v \div 16) % 256))
             ELSE IF quad_pos = 2
             THEN a2b_base64(s, k + 1, 3, v % 4, 0,
                             Append(out, (leftchar * 16 + v \div 4) % 256))
             ELSE a2b_base64(s, k + 1, 0, 0, 0,
                             Append(out, (leftchar * 64 + v) % 256))

\* base64.b64decode of a str: non-ASCII text is rejected, the rest decoded
b64decode(s) ==
    IF \E k \in 1..Len(s) : s[k] > 127
    THEN [ok |-> FALSE, bytes |-> <<>>]
    ELSE a2b_base64(s, 1, 0, 0, 0, <<>>)

\* a UTF-8 continuation byte
IsCont(b) == b \in 128..191

\* bytes.decode("utf-8"), strict: the code points, or a failure
RECURSIVE utf8_decode(_, _, _)
utf8_decode(b, k, out) ==
    LET n == Len(b)
        bad == [ok |-> FALSE, text |-> <<>>]
    IN  IF k > n THEN [ok |-> TRUE, text |-> out]
        ELSE LET b0 == b[k] IN
          IF b0 < 128 THEN utf8_decode(b, k + 1, Append(out, b0))
          ELSE IF b0 \in 194..223
          THEN IF k + 1 <= n /\ IsCont(b[k + 1])
               THEN utf8_decode(b, k + 2,
                        Append(out, (b0 - 192) * 64 + (b[k + 1] - 128)))
               ELSE bad
          ELSE IF b0 \in 224..239
          THEN IF /\ k + 2 <= n
                  /\ IsCont(b[k + 1]) /\ IsCont(b[k + 2])
                  /\ (b0 = 224 => b[k + 1] >= 160)
                  /\ (b0 = 237 => b[k + 1] <= 159)
               THEN utf8_decode(b, k + 3,
                        Append(out, (b0 - 224) * 4096 + (b[k + 1] - 128) * 64
                                    + (b[k + 2] - 128)))
               ELSE bad
          ELSE IF b0 \in 240..244
          THEN IF /\ k + 3 <= n
                  /\ IsCont(b[k + 1]) /\ IsCont(b[k + 2]) /\ IsCont(b[k + 3])
                  /\ (b0 = 240 => b[k + 1] >= 144)
                  /\ (b0 = 244 => b[k + 1] <= 143)
               THEN utf8_decode(b, k + 4,
                        Append(out, (b0 - 240) * 262144 + (b[k + 1] - 128) * 4096
                                    + (b[k + 2] - 128) * 64 + (b[k + 3] - 128)))
               ELSE bad
          ELSE bad

(* ------------------------------- paths --------------------------------- *)
\* str.rfind("/") + 1: one past the last slash, 0 + 1 when there is none
RECURSIVE AfterLastSlash(_, _)
AfterLastSlash(p, k) ==
    IF k = 0 THEN 1
    ELSE IF p[k] = "/" THEN k + 1
    ELSE AfterLastSlash(p, k - 1)

\* posixpath.basename
basename(p) == SubSeq(p, AfterLastSlash(p, Len(p)), Len(p))

(* ------------------------------ inputs --------------------------------- *)
\* the bytes tarfile writes to archive.tgz for the sources directory
ArchiveBytes == <<31, 139, 8>>

\* main-document names a caller may pass ("" is the missing name, " " the default)
MainTexNames == {"", " ", "m.tex"}

\* status codes the server may answer with
BusyStatus == 104
Statuses == {BusyStatus, 200, 500}

\* transport-level failures raised by requests.post
TransportErrors == {"ConnectionError", "Timeout"}

\* server-supplied paths, base64 texts and type tags of an output entry
Paths == {<<"o", "/", "a">>, <<"b">>}
\* "w6k=" (the two bytes of U+00E9), "/w==" (the byte 0xFF), "WA=" (bad padding)
Contents == {<<119, 54, 107, 61>>, <<47, 119, 61, 61>>, <<87, 65, 61>>}
Types == {"pdf", "ps", "html"}
Logs == {"L1", "L2"}

Entries == [type : Types, path : Paths, contents : Contents]

RECURSIVE SeqsUpTo(_, _)
SeqsUpTo(S, n) ==
    IF n = 0 THEN {<<>>}
    ELSE LET shorter == SeqsUpTo(S, n - 1)
         IN  shorter \cup {Append(q, x) : q \in {r \in shorter : Len(r) = n - 1}, x \in S}

\* the JSON bodies the server may send
Responses == [success : BOOLEAN, has_output : BOOLEAN, log : Logs,
              output : SeqsUpTo(Entries, MaxOutputs)]

NoData == [success |-> FALSE, has_output |-> FALSE, log |-> "", output |-> <<>>]
NoResponse == [status |-> 0, seq |-> 0]
NoResult == [success |-> FALSE, log |-> "", output_files |-> <<>>]
NoOutcome == [kind |-> "none", exc |-> "", site |-> 0, msg |-> "", cause |-> "",
              name |-> <<>>, content |-> <<>>, out |-> <<>>, err |-> ""]

\* the destination directory of compile_pdf before the call: absent, or
\* present and already holding a file named "a"
NoDir == [exists |-> FALSE, files |-> [n \in {} |-> <<>>]]
OldDir == [exists |-> TRUE, files |-> [n \in {<<"a">>} |-> <<0>>]]
DestDirs == {NoDir, OldDir}

(* ---------------------- inputs of the local runner --------------------- *)
\* the driver's output is a sequence of tokens: "GEN" is the text
\* "Generated PDF: ", "END" the text "<end of PDF name>", "NL" a newline,
\* the others single characters
Tokens == {"GEN", "END", "NL", "r", "/"}
Stdouts == SeqsUpTo(Tokens, MaxStdout)
Stderrs == {"E1", "E2"}
ExitCodes == {0, 1}

\* a directory tree: the paths below its root (sequences of components),
\* each a file with its bytes or a directory
EmptyTree == [n \in {} |-> [dir |-> FALSE, bytes |-> <<>>]]
FileTree == [n \in {<< <<"r">> >>} |-> [dir |-> FALSE, bytes |-> <<37, 80>>]]
SubdirTree == [n \in {<< <<"r">> >>, << <<"r">>, <<"r">> >>} |->
                 IF Len(n) = 1 THEN [dir |-> TRUE, bytes |-> <<>>]
                               ELSE [dir |-> FALSE, bytes |-> <<37>>]]
\* what the scratch directory may hold once the driver has run
ScratchTrees == {EmptyTree, FileTree, SubdirTree}
\* the host's root directory, outside the scratch directory
HostTree == [n \in {<< <<"r">> >>} |-> [dir |-> FALSE, bytes |-> <<7>>]]

(* ------------------------------- state --------------------------------- *)
VARIABLES
    pc,            \* position of the call
    fn,            \* the entry point that was called
    mode,          \* autotex_or_latexml
    main_tex,      \* main_tex
    srcExists,     \* whether sources_dir exists
    scratch,       \* the TemporaryDirectory: "none", "exists", "removed"
    filePos,       \* read position of archive_file, -1 when it is not open
    posts,         \* the POSTs issued, in order
    n104,          \* number of 104 answers received
    failedPosts,   \* number of POSTs that failed at transport level
    response,      \* the response variable of send_request
    data,          \* the mapping send_request returned
    i,             \* index of the entry the for loop is at
    decoded,       \* indices of the entries handed to b64decode
    result,        \* the Result object of compile_pdf
    dest,          \* the destination directory of compile_pdf
    writes,        \* number of files written into the destination directory
    warnings,      \* save paths logged as already existing
    exitCode,      \* exit code of the driver subprocess, -1 before it ran
    stdout,        \* captured standard output of the driver
    stderr,        \* captured standard error of the driver
    tree,          \* files and directories in the scratch directory
    outcome        \* how the call ended

vars == <<pc, fn, mode, main_tex, srcExists, scratch, filePos, posts, n104,
          failedPosts, response, data, i, decoded, result, dest, writes, warnings,
          exitCode, stdout, stderr, tree, outcome>>

localVars == <<exitCode, stdout, stderr, tree>>

remoteVars == <<filePos, posts, n104, failedPosts, response, data, i, decoded, result, dest,
                writes, warnings>>

Init ==
    /\ pc = "idle"
    /\ fn = ""
    /\ mode = ""
    /\ main_tex = ""
    /\ srcExists = FALSE
    /\ scratch = "none"
    /\ filePos = -1
    /\ posts = <<>>
    /\ n104 = 0
    /\ failedPosts = 0
    /\ response = NoResponse
    /\ data = NoData
    /\ i = 0
    /\ decoded = {}
    /\ result = NoResult
    /\ dest = NoDir
    /\ writes = 0
    /\ warnings = <<>>
    /\ exitCode = -1
    /\ stdout = <<>>
    /\ stderr = ""
    /\ tree = EmptyTree
    /\ outcome = NoOutcome

\* an exception leaves the call
Raised(exc, site, msg, cause) ==
    [NoOutcome EXCEPT !.kind = "raise", !.exc = exc, !.site = site,
                      !.msg = msg, !.cause = cause]

(* ------------------------- the entry points ---------------------------- *)
\* compile_pdf(sources_dir, output_dir): send_request(..., "autotex")
CallCompilePdf ==
    /\ pc = "idle"
    /\ fn' = "compile_pdf"
    /\ mode' = "autotex"
    /\ main_tex' = " "
    /\ srcExists' \in BOOLEAN
    /\ dest' \in DestDirs
    /\ pc' = "sr_enter"
    /\ UNCHANGED <<scratch, filePos, posts, n104, failedPosts, response, data, i, decoded,
                   result, writes, warnings, outcome, localVars>>

\* compile_pdf_return_bytes(sources_dir): send_request(..., "autotex")
CallCompilePdfReturnBytes ==
    /\ pc = "idle"
    /\ fn' = "compile_pdf_return_bytes"
    /\ mode' = "autotex"
    /\ main_tex' = " "
    /\ srcExists' \in BOOLEAN
    /\ pc' = "sr_enter"
    /\ UNCHANGED <<scratch, filePos, posts, n104, failedPosts, response, data, i, decoded,
                   result, dest, writes, warnings, outcome, localVars>>

\* compile_html_return_text(main_tex, sources_dir):
\* send_request(..., "latexml", main_tex)
CallCompileHtmlReturnText ==
    /\ pc = "idle"
    /\ fn' = "compile_html_return_text"
    /\ mode' = "latexml"
    /\ main_tex' \in MainTexNames
    /\ srcExists' \in BOOLEAN
    /\ pc' = "sr_enter"
    /\ UNCHANGED <<scratch, filePos, posts, n104, failedPosts, response, data, i, decoded,
                   result, dest, writes, warnings, outcome, localVars>>

\* send_request called directly, with either mode and any main-document name
CallSendRequest ==
    /\ pc = "idle"
    /\ fn' = "send_request"
    /\ mode' \in {"autotex", "latexml"}
    /\ main_tex' \in MainTexNames
    /\ srcExists' \in BOOLEAN
    /\ pc' = "sr_enter"
    /\ UNCHANGED <<scratch, filePos, posts, n104, failedPosts, response, data, i, decoded,
                   result, dest, writes, warnings, outcome, localVars>>

(* ---------------------------- send_request ----------------------------- *)
\* variant: the directory is made with mkdtemp and never removed
TemporaryDirectoryExit_leak == "exists"

\* tempfile.TemporaryDirectory.__exit__: the state of the scratch directory
\* once its with block has been left, by a return or by an exception
TemporaryDirectoryExit == "removed"

\* the multipart request requests.post builds: the endpoint, the two form
\* fields and the file field, whose bytes are what archive_file.read()
\* yields from the file's current position
Request(pos) ==
    [endpoint |-> "host:port/",
     autotex_or_latexml |-> mode,
     main_tex_file |-> main_tex,
     filename |-> "archive.tgz",
     sources |-> SubSeq(ArchiveBytes, pos + 1, Len(ArchiveBytes))]

\* variant: the assertion is absent
ContractViolated_never(m, t) == FALSE

\* lines 73-74: the assertion fails when the mode is latexml and the
\* main-document name is falsy
ContractViolated(m, t) == m = "latexml" /\ t = ""

\* lines 63-76: the scratch directory is created, the archive written and
\* opened, and the caller contract asserted
SendRequestPrepare ==
    /\ pc = "sr_enter"
    /\ IF ~srcExists
       THEN /\ scratch' = TemporaryDirectoryExit
            /\ outcome' = Raised("FileNotFoundError", 67, "", "")
            /\ pc' = "done"
            /\ UNCHANGED filePos
       ELSE IF ContractViolated(mode, main_tex)
       THEN /\ scratch' = TemporaryDirectoryExit
            /\ outcome' = Raised("AssertionError", 74,
                                 "No main .tex file specified.", "")
            /\ pc' = "done"
            /\ UNCHANGED filePos
       ELSE /\ scratch' = "exists"
            /\ filePos' = 0
            /\ pc' = "sr_post"
            /\ UNCHANGED outcome
    /\ UNCHANGED <<fn, mode, main_tex, srcExists, posts, n104, failedPosts,
                   response, data, i, decoded, result, dest, writes, warnings, localVars>>

\* variant: the failure is swallowed and the POST issued again
HandleRequestException_retry(e) == [pc |-> "sr_post", outcome |-> NoOutcome]

\* lines 81-84: a RequestException of requests.post is wrapped and raised
HandleRequestException(e) ==
    [pc |-> "done",
     outcome |-> Raised("ServerConnectionException", 82,
                        "Request to server host:port/ failed.", e)]

\* variant: the status is tested once, not in a loop
LoopExits_always(r) == TRUE

\* line 79: the test that ends the while loop
LoopExits(r) == r.status # BusyStatus

\* one requests.post: the request is built from the file's current position,
\* which the read leaves at the end of the file; then the transport fails or
\* the server answers
Post ==
    /\ posts' = Append(posts, Request(filePos))
    /\ filePos' = Len(ArchiveBytes)
    /\ \/ \E e \in TransportErrors :
            /\ failedPosts' = failedPosts + 1
            /\ outcome' = HandleRequestException(e).outcome
            /\ pc' = HandleRequestException(e).pc
            /\ scratch' = TemporaryDirectoryExit
            /\ UNCHANGED <<response, n104>>
       \/ \E s \in Statuses :
            /\ s = BusyStatus => n104 < MaxBusy
            /\ response' = [status |-> s, seq |-> Len(posts) + 1]
            /\ n104' = IF s = BusyStatus THEN n104 + 1 ELSE n104
            /\ pc' = "sr_while"
            /\ UNCHANGED <<outcome, scratch, failedPosts>>
    /\ UNCHANGED <<fn, mode, main_tex, srcExists, data, i, decoded, result,
                   dest, writes, warnings, localVars>>

\* line 78: the first POST
FirstPost ==
    /\ pc = "sr_post"
    /\ Post

\* lines 79-80: the response has status 104, the POST is issued again
RetryPost ==
    /\ pc = "sr_while"
    /\ ~LoopExits(response)
    /\ Post

\* lines 79, 87: the response has another status; the with blocks are left
\* and the body is parsed as JSON
SendRequestReturn ==
    /\ pc = "sr_while"
    /\ LoopExits(response)
    /\ scratch' = TemporaryDirectoryExit
    /\ filePos' = -1
    /\ \/ /\ outcome' = Raised("JSONDecodeError", 87, "", "")
          /\ pc' = "done"
          /\ UNCHANGED data
       \/ \E body \in Responses :
            /\ data' = body
            /\ IF fn = "send_request"
               THEN /\ outcome' = [NoOutcome EXCEPT !.kind = "return", !.site = 87]
                    /\ pc' = "done"
               ELSE /\ pc' = "check"
                    /\ UNCHANGED outcome
    /\ UNCHANGED <<fn, mode, main_tex, srcExists, posts, n104, failedPosts, response, i,
                   decoded, result, dest, writes, warnings, localVars>>

(* ------------------------- response decoding --------------------------- *)
\* variants of the test: both flags required; has_output ignored
Usable_bothFlags(d) == d.success /\ d.has_output
Usable_onlySuccess(d) == d.success

\* the test "success or has_output" each entry point applies to the response
Usable(d) == d.success \/ d.has_output

\* lines 99-113, 145-147, 167-169: the frame of send_request is gone; the
\* response is rejected with its log, or the loop over its entries begins
\* (compile_pdf first builds its Result and creates the directory if absent)
CheckSuccess ==
    /\ pc = "check"
    /\ posts' = <<>>
    /\ n104' = 0
    /\ failedPosts' = 0
    /\ response' = NoResponse
    /\ IF ~Usable(data)
       THEN /\ outcome' = Raised("CompilationException",
                                 CASE fn = "compile_pdf" -> 101
                                   [] fn = "compile_pdf_return_bytes" -> 147
                                   [] OTHER -> 169,
                                 data.log, "")
            /\ pc' = "done"
            /\ UNCHANGED <<i, result, dest>>
       ELSE /\ pc' = "loop"
            /\ i' = 1
            /\ IF fn = "compile_pdf"
               THEN /\ result' = [success |-> data.success, log |-> data.log,
                                  output_files |-> <<>>]
                    /\ dest' = [dest EXCEPT !.exists = TRUE]
               ELSE UNCHANGED <<result, dest>>
            /\ UNCHANGED outcome
    /\ UNCHANGED <<fn, mode, main_tex, srcExists, scratch, filePos, data,
                   decoded, writes, warnings, localVars>>

\* variant: both scans test for the pdf tag
RequestedType_copied(f) == "pdf"

\* lines 151, 173: the type tag an entry point scans the entries for
RequestedType(f) == IF f = "compile_pdf_return_bytes" THEN "pdf" ELSE "html"

\* variant: a file that already exists is kept, the new bytes dropped
WriteFile_keepOld(files, n, c) ==
    [x \in (DOMAIN files) \cup {n} |-> IF x \in DOMAIN files THEN files[x] ELSE c]

\* open(save_path, "wb") and write: the file named n holds the bytes c
WriteFile(files, n, c) ==
    [x \in (DOMAIN files) \cup {n} |-> IF x = n THEN c ELSE files[x]]

\* lines 115-132: one iteration of compile_pdf's loop
PersistEntry ==
    /\ pc = "loop"
    /\ fn = "compile_pdf"
    /\ i <= Len(data.output)
    /\ LET output == data.output[i]
           name == basename(output.path)
           dec == b64decode(output.contents)
       IN  /\ result' = [result EXCEPT
                           !.output_files = Append(@, [type_ |-> output.type,
                                                       name |-> name])]
           /\ warnings' = IF name \in DOMAIN dest.files
                          THEN Append(warnings, name) ELSE warnings
           /\ decoded' = decoded \cup {i}
           /\ IF dec.ok
              THEN /\ dest' = [dest EXCEPT !.files = WriteFile(@, name, dec.bytes)]
                   /\ writes' = writes + 1
                   /\ i' = i + 1
                   /\ UNCHANGED <<pc, outcome>>
              ELSE /\ outcome' = Raised("binascii.Error", 130, "", "")
                   /\ pc' = "done"
                   /\ UNCHANGED <<dest, writes, i>>
    /\ UNCHANGED <<fn, mode, main_tex, srcExists, scratch, filePos, posts,
                   n104, failedPosts, response, data, localVars>>

\* line 134: the loop is over, compile_pdf returns its Result
CompilePdfReturn ==
    /\ pc = "loop"
    /\ fn = "compile_pdf"
    /\ i > Len(data.output)
    /\ outcome' = [NoOutcome EXCEPT !.kind = "return", !.site = 134]
    /\ pc' = "done"
    /\ UNCHANGED <<fn, mode, main_tex, srcExists, scratch, filePos, posts,
                   n104, failedPosts, response, data, i, decoded, result, dest, writes,
                   warnings, localVars>>

\* lines 149-155: one iteration of compile_pdf_return_bytes's loop
ScanPdf ==
    /\ pc = "loop"
    /\ fn = "compile_pdf_return_bytes"
    /\ i <= Len(data.output)
    /\ LET output == data.output[i]
           dec == b64decode(output.contents)
       IN  IF output.type = RequestedType(fn)
           THEN /\ decoded' = decoded \cup {i}
                /\ pc' = "done"
                /\ outcome' = IF dec.ok
                              THEN [NoOutcome EXCEPT !.kind = "return", !.site = 155,
                                        !.name = basename(output.path),
                                        !.content = dec.bytes]
                              ELSE Raised("binascii.Error", 154, "", "")
                /\ UNCHANGED i
           ELSE /\ i' = i + 1
                /\ UNCHANGED <<pc, outcome, decoded>>
    /\ UNCHANGED <<fn, mode, main_tex, srcExists, scratch, filePos, posts,
                   n104, failedPosts, response, data, result, dest, writes, warnings, localVars>>

\* line 157: no entry was a pdf
RaiseNoPdf ==
    /\ pc = "loop"
    /\ fn = "compile_pdf_return_bytes"
    /\ i > Len(data.output)
    /\ outcome' = Raised("CompilationException", 157, "No pdf output.", "")
    /\ pc' = "done"
    /\ UNCHANGED <<fn, mode, main_tex, srcExists, scratch, filePos, posts,
                   n104, failedPosts, response, data, i, decoded, result, dest, writes,
                   warnings, localVars>>

\* lines 171-176: one iteration of compile_html_return_text's loop
ScanHtml ==
    /\ pc = "loop"
    /\ fn = "compile_html_return_text"
    /\ i <= Len(data.output)
    /\ LET output == data.output[i]
           dec == b64decode(output.contents)
           txt == utf8_decode(dec.bytes, 1, <<>>)
       IN  IF output.type = RequestedType(fn)
           THEN /\ decoded' = decoded \cup {i}
                /\ pc' = "done"
                /\ outcome' = IF ~dec.ok
                              THEN Raised("binascii.Error", 175, "", "")
                              ELSE IF ~txt.ok
                              THEN Raised("UnicodeDecodeError", 175, "", "")
                              ELSE [NoOutcome EXCEPT !.kind = "return", !.site = 176,
                                        !.content = txt.text]
                /\ UNCHANGED i
           ELSE /\ i' = i + 1
                /\ UNCHANGED <<pc, outcome, decoded>>
    /\ UNCHANGED <<fn, mode, main_tex, srcExists, scratch, filePos, posts,
                   n104, failedPosts, response, data, result, dest, writes, warnings, localVars>>

\* line 178: no entry was html
RaiseNoHtml ==
    /\ pc = "loop"
    /\ fn = "compile_html_return_text"
    /\ i > Len(data.output)
    /\ outcome' = Raised("CompilationException", 178, "No pdf output.", "")
    /\ pc' = "done"
    /\ UNCHANGED <<fn, mode, main_tex, srcExists, scratch, filePos, posts,
                   n104, failedPosts, response, data, i, decoded, result, dest, writes,
                   warnings, localVars>>

(* --------------------------- the local runner -------------------------- *)
\* re.search(r"Generated PDF: (.*?)<end of PDF name>", s) tried at position p:
\* the position of the closing text, 0 if the pattern does not match there.
\* The lazy group stops at the first closing text, and "." matches no newline.
RECURSIVE MatchFrom(_, _, _)
MatchFrom(s, p, q) ==
    IF q > Len(s) THEN 0
    ELSE IF s[q] = "END" THEN q
    ELSE IF s[q] = "NL" THEN 0
    ELSE MatchFrom(s, p, q + 1)

\* the leftmost position at which the pattern matches, 0 if there is none
RECURSIVE SearchFrom(_, _)
SearchFrom(s, p) ==
    IF p > Len(s) THEN 0
    ELSE IF s[p] = "GEN" /\ MatchFrom(s, p, p + 1) # 0 THEN p
    ELSE SearchFrom(s, p + 1)

\* re.search and match.group(1)
Search(s) ==
    LET p == SearchFrom(s, 1)
    IN  IF p = 0 THEN [found |-> FALSE, group1 |-> <<>>]
        ELSE [found |-> TRUE,
              group1 |-> SubSeq(s, p + 1, MatchFrom(s, p, p + 1) - 1)]

\* the components of a path: its maximal runs without a slash
RECURSIVE Components(_, _, _, _)
Components(p, k, cur, acc) ==
    IF k > Len(p) THEN (IF cur = <<>> THEN acc ELSE Append(acc, cur))
    ELSE IF p[k] = "/"
    THEN Components(p, k + 1, <<>>, IF cur = <<>> THEN acc ELSE Append(acc, cur))
    ELSE Components(p, k + 1, Append(cur, p[k]), acc)

\* what os.path.join(temp_dir, name) names: an absolute name discards
\* temp_dir and is resolved from the host's root, any other below the
\* scratch directory; a trailing slash names a directory only
Lookup(scratchTree, name) ==
    LET absolute == name # <<>> /\ name[1] = "/"
        t == IF absolute THEN HostTree ELSE scratchTree
        cs == Components(name, 1, <<>>, <<>>)
        trailing == name # <<>> /\ name[Len(name)] = "/"
    IN  IF cs = <<>> THEN [exists |-> TRUE, dir |-> TRUE, bytes |-> <<>>,
                           inScratch |-> ~absolute]
        ELSE IF cs \notin DOMAIN t
        THEN [exists |-> FALSE, dir |-> FALSE, bytes |-> <<>>, inScratch |-> ~absolute]
        ELSE IF trailing /\ ~t[cs].dir
        THEN [exists |-> FALSE, dir |-> FALSE, bytes |-> <<>>, inScratch |-> ~absolute]
        ELSE [exists |-> TRUE, dir |-> t[cs].dir, bytes |-> t[cs].bytes,
              inScratch |-> ~absolute]

\* compile_pdf_locally(sources_dir)
CallCompilePdfLocally ==
    /\ pc = "idle"
    /\ fn' = "compile_pdf_locally"
    /\ srcExists' \in BOOLEAN
    /\ pc' = "local_enter"
    /\ UNCHANGED <<mode, main_tex, scratch, outcome, remoteVars, localVars>>

\* lines 27-42: the sources directory is checked, copied into a new scratch
\* directory, and chmod is run on the copy
LocalPrepare ==
    /\ pc = "local_enter"
    /\ IF ~srcExists
       THEN /\ outcome' = Raised("FileNotFoundError", 28, "", "")
            /\ pc' = "done"
            /\ UNCHANGED <<scratch, stderr>>
       ELSE \/ /\ scratch' = "exists"
               /\ pc' = "local_run"
               /\ UNCHANGED <<outcome, stderr>>
            \/ \E e \in Stderrs :
               /\ stderr' = e
               /\ outcome' = [Raised("LocalCompilationException", 42,
                                     "chmod failed", "") EXCEPT !.err = e]
               /\ scratch' = TemporaryDirectoryExit
               /\ pc' = "done"
    /\ UNCHANGED <<fn, mode, main_tex, srcExists, remoteVars, exitCode, stdout, tree>>

\* lines 45-67: the driver is run; it cannot be started, or it exits with a
\* code, its two streams captured, leaving files in the scratch directory
LocalRun ==
    /\ pc = "local_run"
    /\ \/ /\ outcome' = Raised("FileNotFoundError", 55, "", "")
          /\ scratch' = TemporaryDirectoryExit
          /\ pc' = "done"
          /\ UNCHANGED localVars
       \/ \E c \in ExitCodes, o \in Stdouts, e \in Stderrs, t \in ScratchTrees :
          /\ exitCode' = c
          /\ stdout' = o
          /\ stderr' = e
          /\ tree' = t
          /\ IF c # 0
             THEN /\ outcome' = [Raised("LocalCompilationException", 67,
                                        "driver failed", "")
                                 EXCEPT !.out = o, !.err = e]
                  /\ scratch' = TemporaryDirectoryExit
                  /\ pc' = "done"
             ELSE /\ pc' = "local_scrape"
                  /\ UNCHANGED <<outcome, scratch>>
    /\ UNCHANGED <<fn, mode, main_tex, srcExists, remoteVars>>

\* lines 70-81: the marker is searched in the output, the named path is
\* tested with os.path.exists, opened and read
LocalScrape ==
    /\ pc = "local_scrape"
    /\ LET match == Search(stdout)
           pdf_filename == match.group1
           node == Lookup(tree, pdf_filename)
       IN  outcome' =
             IF ~match.found
             THEN [Raised("LocalCompilationException", 73, "no file name", "")
                   EXCEPT !.out = stdout, !.err = stderr]
             ELSE IF ~node.exists
             THEN Raised("LocalCompilationException", 77, "file not found", "")
             ELSE IF node.dir
             THEN Raised("IsADirectoryError", 78, "", "")
             ELSE [NoOutcome EXCEPT !.kind = "return", !.site = 81,
                       !.name = pdf_filename, !.content = node.bytes]
    /\ scratch' = TemporaryDirectoryExit
    /\ pc' = "done"
    /\ UNCHANGED <<fn, mode, main_tex, srcExists, remoteVars, localVars>>

Next ==
    \/ CallCompilePdf
    \/ CallCompilePdfReturnBytes
    \/ CallCompileHtmlReturnText
    \/ CallSendRequest
    \/ SendRequestPrepare
    \/ FirstPost
    \/ RetryPost
    \/ SendRequestReturn
    \/ CheckSuccess
    \/ PersistEntry
    \/ CompilePdfReturn
    \/ ScanPdf
    \/ RaiseNoPdf
    \/ ScanHtml
    \/ RaiseNoHtml
    \/ CallCompilePdfLocally
    \/ LocalPrepare
    \/ LocalRun
    \/ LocalScrape

Spec == Init /\ [][Next]_vars

(* ============================== claims ================================= *)
EntryPoints == {"compile_pdf", "compile_pdf_return_bytes", "compile_html_return_text"}

\* the raise statements that carry the response's log
LogSites == {101, 147, 169}

\* an entry point has received a response and is past its success check
Decided == fn \in EntryPoints /\ data # NoData /\ pc \in {"loop", "done"}

\* a response with success=false, has_output=true and at least one entry
\* has been handled to the end
PartialDone ==
    /\ fn \in EntryPoints /\ data # NoData /\ pc = "done"
    /\ ~data.success /\ data.has_output /\ Len(data.output) >= 1

\* the (type, basename) list of the response's entries, in response order
Manifest(d) ==
    [k \in 1..Len(d.output) |->
        [type_ |-> d.output[k].type, name |-> basename(d.output[k].path)]]

\* indices of the entries of type t
Matches(d, t) == {k \in 1..Len(d.output) : d.output[k].type = t}
Min(S) == CHOOSE k \in S : \A j \in S : k <= j

\* C1: a response with success=false and has_output=false makes each entry
\* point raise CompilationException with the log as message before any entry
\* is decoded, written or listed; with success or has_output true, no
\* log-carrying exception is raised.
C1_FailedResponseRaisesLog ==
    Decided =>
        IF ~data.success /\ ~data.has_output
        THEN /\ pc = "done"
             /\ outcome.kind = "raise"
             /\ outcome.exc = "CompilationException"
             /\ outcome.msg = data.log
             /\ outcome.site \in LogSites
             /\ decoded = {} /\ writes = 0 /\ warnings = <<>>
             /\ result = NoResult /\ i = 0
        ELSE ~(outcome.kind = "raise" /\ outcome.site \in LogSites)

C1_Witness ==
    /\ pc = "done" /\ fn = "compile_html_return_text"
    /\ ~data.success /\ ~data.has_output /\ data.log = "L2"
    /\ Len(data.output) = 2
    /\ outcome.exc = "CompilationException" /\ outcome.msg = "L2"

\* C2 (as claimed): a response with success=false, has_output=true and at
\* least one entry, all of them well-formed, yields a non-error result from
\* every entry point.
C2_PartialSuccessNeverRaises ==
    ( /\ PartialDone
      /\ \A k \in 1..Len(data.output) :
            /\ b64decode(data.output[k].contents).ok
            /\ utf8_decode(b64decode(data.output[k].contents).bytes, 1, <<>>).ok )
    => outcome.kind = "return"

\* C2 (amended): for such a response no entry point raises the log-carrying
\* exception; compile_pdf returns a Result with success false listing the
\* entries when their contents decode; the two scanning entry points return
\* when an entry of their type exists and decodes, and raise "No pdf output."
\* when no entry has their type.
C2_PartialSuccessAmended ==
    PartialDone =>
        /\ ~(outcome.kind = "raise" /\ outcome.site \in LogSites)
        /\ ( /\ fn = "compile_pdf"
             /\ \A k \in 1..Len(data.output) : b64decode(data.output[k].contents).ok )
           => /\ outcome.kind = "return"
              /\ result.success = FALSE
              /\ result.output_files = Manifest(data)
        /\ fn = "compile_pdf_return_bytes" =>
              IF Matches(data, "pdf") = {}
              THEN outcome.kind = "raise" /\ outcome.site = 157
                   /\ outcome.msg = "No pdf output."
              ELSE b64decode(data.output[Min(Matches(data, "pdf"))].contents).ok
                      => outcome.kind = "return"
        /\ fn = "compile_html_return_text" =>
              IF Matches(data, "html") = {}
              THEN outcome.kind = "raise" /\ outcome.site = 178
                   /\ outcome.msg = "No pdf output."
              ELSE LET dec == b64decode(data.output[Min(Matches(data, "html"))].contents)
                   IN  (dec.ok /\ utf8_decode(dec.bytes, 1, <<>>).ok)
                          => outcome.kind = "return"

C2_Witness ==
    /\ PartialDone /\ fn = "compile_pdf"
    /\ outcome.kind = "return" /\ ~result.success
    /\ Len(result.output_files) = 2

C4_FirstMatch ==
    ( /\ pc = "done" /\ data # NoData
      /\ fn \in {"compile_pdf_return_bytes", "compile_html_return_text"}
      /\ (data.success \/ data.has_output) )
    => LET t == IF fn = "compile_pdf_return_bytes" THEN "pdf" ELSE "html"
           M == Matches(data, t)
       IN  IF M = {}
           THEN /\ outcome.kind = "raise"
                /\ outcome.exc = "CompilationException"
                /\ outcome.msg = "No pdf output."
                /\ decoded = {}
           ELSE LET e == data.output[Min(M)]
                    dec == b64decode(e.contents)
                    txt == utf8_decode(dec.bytes, 1, <<>>)
                IN  /\ decoded = {Min(M)}
                    /\ outcome.exc # "CompilationException"
                    /\ IF fn = "compile_pdf_return_bytes"
                       THEN IF dec.ok
                            THEN /\ outcome.kind = "return"
                                 /\ outcome.name = basename(e.path)
                                 /\ outcome.content = dec.bytes
                            ELSE outcome.kind = "raise"
                       ELSE IF dec.ok /\ txt.ok
                            THEN /\ outcome.kind = "return"
                                 /\ outcome.content = txt.text
                            ELSE outcome.kind = "raise"

C4_Witness ==
    /\ pc = "done" /\ fn = "compile_html_return_text"
    /\ Len(data.output) = 2
    /\ data.output[1].type = "html" /\ data.output[2].type = "html"
    /\ data.output[1].contents # data.output[2].contents
    /\ outcome.kind = "return" /\ outcome.content = <<233>>

\* C5: a send_request in latexml mode with an empty main-document name
\* fails without any POST being issued, and every POST in latexml mode
\* carries a non-empty main_tex_file field.
C5_LatexmlNeedsMainTex ==
    /\ (mode = "latexml" /\ main_tex = "" /\ pc # "sr_enter")
       => /\ pc = "done"
          /\ outcome.kind = "raise"
          /\ posts = <<>>
          /\ srcExists => outcome.exc = "AssertionError"
    /\ \A k \in 1..Len(posts) :
          posts[k].autotex_or_latexml = "latexml" => posts[k].main_tex_file # ""

C5_Witness ==
    /\ pc = "done" /\ fn = "compile_html_return_text"
    /\ main_tex = "" /\ srcExists
    /\ outcome.exc = "AssertionError" /\ posts = <<>>

\* send_request has returned a body to its caller
SendRequestReturned ==
    \/ pc = "check"
    \/ pc = "done" /\ fn = "send_request" /\ outcome.kind = "return"

\* C6: a 104 response is never returned or raised; each 104 is followed by
\* exactly one further POST, so POSTs = 104 responses + 1; the body returned
\* is that of the first response that is not 104; while the last response is
\* 104 the call can only POST again, and once it is not 104 the call returns.
C6_BusyRetry ==
    /\ pc = "sr_while" =>
          /\ response.seq = Len(posts)
          /\ IF response.status = 104
             THEN /\ Len(posts) = n104
                  /\ ENABLED RetryPost /\ ~ENABLED SendRequestReturn
             ELSE /\ Len(posts) = n104 + 1
                  /\ ENABLED SendRequestReturn /\ ~ENABLED RetryPost
    /\ SendRequestReturned =>
          /\ response.status # 104
          /\ response.seq = n104 + 1
          /\ Len(posts) = n104 + 1
    /\ (pc = "done" /\ outcome.site \in {82, 87}) =>
          /\ Len(posts) = n104 + 1
          /\ outcome.site = 87 => response.status # 104

C6_Witness ==
    /\ pc = "check" /\ n104 = 2 /\ Len(posts) = 3 /\ response.status = 200

\* C7 (as claimed): every POST of one call is the same request as the first,
\* its file field carrying the complete archive.
C7_ResendIdentical ==
    \A k \in 1..Len(posts) :
        posts[k] = posts[1] /\ posts[k].sources = ArchiveBytes

\* C8: a POST that fails at transport level makes send_request raise
\* ServerConnectionException with the cause; it is the last POST of the
\* call and no body is returned.
C8_TransportFailureNotRetried ==
    failedPosts > 0 =>
        /\ failedPosts = 1
        /\ pc = "done"
        /\ outcome.kind = "raise"
        /\ outcome.exc = "ServerConnectionException"
        /\ outcome.cause \in TransportErrors
        /\ data = NoData
        /\ Len(posts) = n104 + 1

C8_Witness ==
    /\ failedPosts = 1 /\ n104 = 1 /\ Len(posts) = 2
    /\ outcome.exc = "ServerConnectionException" /\ outcome.cause = "Timeout"

\* C9: once compile_pdf_locally or send_request has returned or raised, the
\* scratch directory the call created exists no longer.
C9_ScratchRemoved ==
    /\ pc \in {"check", "loop", "done"} => scratch # "exists"
    /\ (pc \in {"check", "loop"} \/ (pc = "done" /\ outcome.site # 28))
       => scratch = "removed"

C9_Witness ==
    /\ pc = "done" /\ fn = "compile_pdf_locally"
    /\ outcome.site = 77 /\ scratch = "removed"

\* C10 (as claimed): once the driver has exited, compile_pdf_locally returns
\* if and only if the exit code is 0, stdout holds the marker and the named
\* file exists in the scratch directory, the result being the file's
\* basename and bytes; otherwise it raises LocalCompilationException: for a
\* nonzero exit with both streams, else for a missing marker, else for a
\* missing file.
C10_LocalRunnerOutcome ==
    (pc = "done" /\ fn = "compile_pdf_locally" /\ exitCode # -1) =>
        LET m == Search(stdout)
            node == Lookup(tree, m.group1)
            fileThere == m.found /\ node.exists /\ ~node.dir /\ node.inScratch
        IN  /\ outcome.kind = "return" <=> (exitCode = 0 /\ fileThere)
            /\ outcome.kind = "return" =>
                  /\ outcome.name = basename(m.group1)
                  /\ outcome.content = node.bytes
            /\ outcome.kind # "return" =>
                  /\ outcome.exc = "LocalCompilationException"
                  /\ IF exitCode # 0
                     THEN outcome.site = 67 /\ outcome.out = stdout
                          /\ outcome.err = stderr
                     ELSE IF ~m.found THEN outcome.site = 73
                     ELSE outcome.site = 77

====
